---- MODULE Spec2Model ----
(***************************************************************************)
(* Engagement and publication-state core of the blog API server           *)
(* (server/api/index.js): the connection middleware, verifyJWT, and the    *)
(* /create-blog, /get-blog and /like-blog handlers, over the Blog, User    *)
(* and Notification collections.                                           *)
(*                                                                         *)
(* Every storage call of a handler is one atomic step at the store; the    *)
(* promise callback that follows it touches only the request's own state   *)
(* and the response, so it is taken in the same step as the call that      *)
(* resolved.  Requests interleave freely between their storage calls.      *)
(*                                                                         *)
(* The routes write disjoint parts of the store (only /create-blog writes  *)
(* a blog's fields and total_posts, only /get-blog the read counters, only *)
(* /like-blog total_likes and the like Notifications), so each group of    *)
(* properties is checked under the specification of the routes that write  *)
(* what it reads: SpecPublish, SpecView, SpecLike and SpecLikeFault.       *)
(* Request bodies carry present fields; storage calls succeed except in    *)
(* SpecLikeFault, where the storage calls of /like-blog may reject.        *)
(***************************************************************************)
EXTENDS Integers, Sequences, FiniteSets, Bags

\* ---------------------------------------------------------------- bounds
MaxReq == 3          \* requests served in one run
MaxPublishReq == 2   \* requests served in one run of the publication model
MaxBlogs == 2        \* blogs the store can hold in one run

Users == {"u1", "u2"}            \* accounts (user _id, also the username)
NoToken == "none"                \* no Authorization header
BadToken == "invalid"            \* a token jwt.verify rejects
Credentials == Users \cup {NoToken, BadToken}
Modes == {"edit", "read"}        \* req.body.mode of /get-blog
BlogRefs == 1..MaxBlogs          \* blog references a request can carry
NoBlogId == 0                    \* req.body.blogId absent (falsy)

\* A request body's text fields are modelled by their lengths.
Fields == {"title", "description", "banner", "content", "tags"}
FullBody == [f \in Fields |-> 1]
Bodies == {FullBody} \cup {[FullBody EXCEPT ![f] = 0] : f \in Fields}

VARIABLES cachedDb, connectCalls, blogs, users, notifications, reqs

vars == <<cachedDb, connectCalls, blogs, users, notifications, reqs>>

\* ------------------------------------------------------------- helpers
Resolves(b) == b \in 1..Len(blogs)

NoResponse == [status |-> 0, body |-> "none"]
Response(s, b) == [status |-> s, body |-> b]

\* the state of a request that has just been accepted by the server
NewRequest ==
  [op |-> "none", pc |-> "new", user |-> NoToken, blog |-> NoBlogId,
   draft |-> FALSE, flag |-> FALSE, mode |-> "read", body |-> FullBody,
   res |-> NoResponse, sent |-> 0]

\* The requests the server has accepted, as a bag: the server tells two
\* requests apart by nothing but their content and their position.
Requests == BagToSet(reqs)

\* request r moves on as q
Becomes(r, q) == (reqs (-) SetToBag({r})) (+) SetToBag({q})

\* res.status(s).json(b) on request r, ending in position p
Respond(r, s, b, p) ==
  [r EXCEPT !.res = Response(s, b), !.sent = @ + 1, !.pc = p]

Goto(r, p) == [r EXCEPT !.pc = p]

\* requests in position p
InPosition(p) ==
  BagCardinality([q \in {x \in Requests : x.pc = p} |-> reqs[q]])

\* --------------------------------------------------- connection middleware
Init ==
  /\ cachedDb = FALSE
  /\ connectCalls = 0
  /\ blogs = <<>>
  /\ users = [u \in Users |-> [total_posts |-> 0, total_reads |-> 0, blogs |-> {}]]
  /\ notifications = [k \in Users \X BlogRefs |-> 0]
  /\ reqs = EmptyBag

\* A request enters the connection middleware with cachedDb set:
\* connectToDatabase returns the cached handle, next() hands over to the route
ConnectCached(n) ==
  /\ BagCardinality(reqs) < n
  /\ cachedDb
  /\ reqs' = reqs (+) SetToBag({Goto(NewRequest, "route")})
  /\ UNCHANGED <<cachedDb, connectCalls, blogs, users, notifications>>

\* A request enters the connection middleware with cachedDb null:
\* connectToDatabase calls mongoose.connect and awaits it
ConnectCall(n) ==
  /\ BagCardinality(reqs) < n
  /\ ~cachedDb
  /\ connectCalls' = connectCalls + 1
  /\ reqs' = reqs (+) SetToBag({Goto(NewRequest, "connecting")})
  /\ UNCHANGED <<cachedDb, blogs, users, notifications>>

\* the awaited connect resolves: cachedDb = db; next()
ConnectDone(r) ==
  /\ r.pc = "connecting"
  /\ cachedDb' = TRUE
  /\ reqs' = Becomes(r, Goto(r, "route"))
  /\ UNCHANGED <<connectCalls, blogs, users, notifications>>

\* ------------------------------------------------------------ verifyJWT
\* the response verifyJWT sends, or no response when it calls next()
verifyJWT(cred) ==
  IF cred = NoToken THEN Response(401, "Access denied!")
  ELSE IF cred = BadToken THEN Response(403, "Access token is invalid")
  ELSE NoResponse

\* ---------------------------------------------------------- /create-blog
\* the synchronous validation at the head of the handler: the error it
\* answers with, or "ok"
ValidateBlog(body, draft) ==
  IF body["title"] = 0 THEN "you must provide blog title."
  ELSE IF draft /\ body["description"] = 0 THEN "you must provide blog description."
  ELSE IF draft /\ body["banner"] = 0 THEN "you must provide blog banner."
  ELSE IF draft /\ body["content"] = 0 THEN "you must provide blog content"
  ELSE IF draft /\ body["tags"] = 0 THEN "you must provide tags"
  ELSE "ok"

\* activity counters of a freshly constructed Blog document
NewActivity == [total_reads |-> 0, total_likes |-> 0]

\* new Blog({title, description, banner, content, tags, author, draft})
NewBlog(author, body, draft) ==
  [author |-> author, draft |-> draft, body |-> body,
   activity |-> NewActivity]

\* blogs stored or about to be stored by an accepted creation
BlogsClaimed == Len(blogs) + InPosition("blogSave")

\* verifyJWT, then the synchronous part of the handler up to the storage call
CreateBlog(r, cred, body, draft, blogId) ==
  /\ r.pc = "route"
  /\ LET auth == verifyJWT(cred)
         q == [r EXCEPT !.op = "create-blog", !.user = cred, !.body = body,
                        !.draft = draft, !.blog = blogId]
         err == ValidateBlog(body, draft)
     IN
     /\ (auth = NoResponse /\ err = "ok" /\ blogId = NoBlogId)
           => BlogsClaimed < MaxBlogs
     /\ reqs' = Becomes(r,
          IF auth # NoResponse
            THEN Respond([r EXCEPT !.op = "create-blog"], auth.status, auth.body, "done")
          ELSE IF err # "ok" THEN Respond(q, 403, err, "done")
          ELSE IF blogId # NoBlogId THEN Goto(q, "blogUpdate")
          ELSE Goto(q, "blogSave"))
  /\ UNCHANGED <<cachedDb, connectCalls, blogs, users, notifications>>

\* Blog.findOneAndUpdate({blog_id: blogId}, {title, ..., draft}) and its
\* .then: the update path answers 200 whether or not a document matched
BlogUpdate(r) ==
  /\ r.pc = "blogUpdate"
  /\ blogs' = IF Resolves(r.blog)
                THEN [blogs EXCEPT ![r.blog].body = r.body,
                                   ![r.blog].draft = r.draft]
                ELSE blogs
  /\ reqs' = Becomes(r, Respond(r, 200, "id", "done"))
  /\ UNCHANGED <<cachedDb, connectCalls, users, notifications>>

\* whether the Blog schema's validators let a document with these fields be
\* saved (no validator is described for them)
BlogSchemaAccepts(body) == TRUE

\* blog.save() on the create path; its .then issues the author update, its
\* .catch answers 500
BlogSave(r) ==
  /\ r.pc = "blogSave"
  /\ IF BlogSchemaAccepts(r.body)
       THEN /\ blogs' = Append(blogs, NewBlog(r.user, r.body, r.draft))
            /\ reqs' = Becomes(r, [r EXCEPT !.pc = "userUpdate",
                                             !.blog = Len(blogs) + 1])
       ELSE /\ blogs' = blogs
            /\ reqs' = Becomes(r, Respond(r, 500, "err.message", "done"))
  /\ UNCHANGED <<cachedDb, connectCalls, users, notifications>>

\* increasePostCount = draft ? 0 : 1
increasePostCount(draft) == IF draft THEN 0 ELSE 1

\* User.findOneAndUpdate({_id: authorId}, {$inc total_posts, $push blogs})
UserUpdate(r) ==
  /\ r.pc = "userUpdate"
  /\ users' = [users EXCEPT
                 ![r.user].total_posts = @ + increasePostCount(r.draft),
                 ![r.user].blogs = @ \cup {r.blog}]
  /\ reqs' = Becomes(r, Respond(r, 200, "id", "done"))
  /\ UNCHANGED <<cachedDb, connectCalls, blogs, notifications>>

\* ------------------------------------------------------------- /get-blog
\* a slip that charges edit-mode fetches as reads
readIncrementAlways(mode) == 1

\* incrementalValue = mode == "edit" ? 0 : 1
readIncrement(mode) == IF mode = "edit" THEN 0 ELSE 1

\* a slip that drops the negation of the request's draft flag
DraftDeniedUnnegated(blogDraft, reqDraft) == blogDraft /\ reqDraft

\* blog.draft && !draft
DraftDenied(blogDraft, reqDraft) == blogDraft /\ ~reqDraft

GetBlog(r, blogId, draft, mode) ==
  /\ r.pc = "route"
  /\ reqs' = Becomes(r, [r EXCEPT !.op = "get-blog", !.blog = blogId,
                                   !.draft = draft, !.mode = mode,
                                   !.pc = "getFind"])
  /\ UNCHANGED <<cachedDb, connectCalls, blogs, users, notifications>>

\* Blog.findOneAndUpdate({blog_id}, {$inc total_reads}) and its .then: the
\* author update is issued, then the draft check decides the response; a
\* null blog throws in the .then and the .catch answers 500
GetBlogFind(r) ==
  /\ r.pc = "getFind"
  /\ LET b == r.blog IN
     IF Resolves(b)
       THEN /\ blogs' = [blogs EXCEPT ![b].activity.total_reads =
                                         @ + readIncrement(r.mode)]
            /\ reqs' = Becomes(r,
                         IF DraftDenied(blogs[b].draft, r.draft)
                           THEN Respond(r, 500, "you can not access draft blogs.",
                                        "authorUpdate")
                           ELSE Respond(r, 200, "blog", "authorUpdate"))
       ELSE /\ blogs' = blogs
            /\ reqs' = Becomes(r, Respond(r, 500, "TypeError", "done"))
  /\ UNCHANGED <<cachedDb, connectCalls, users, notifications>>

\* User.findOneAndUpdate({username: blog.author...}, {$inc total_reads})
AuthorUpdate(r) ==
  /\ r.pc = "authorUpdate"
  /\ users' = [users EXCEPT ![blogs[r.blog].author].total_reads =
                               @ + readIncrement(r.mode)]
  /\ reqs' = Becomes(r, Goto(r, "done"))
  /\ UNCHANGED <<cachedDb, connectCalls, blogs, notifications>>

\* ------------------------------------------------------------ /like-blog
\* incrementalValue = !isLikedByUser ? 1 : -1
likeIncrement(isLikedByUser) == IF ~isLikedByUser THEN 1 ELSE -1

LikeBlog(r, cred, blogId, isLikedByUser) ==
  /\ r.pc = "route"
  /\ LET auth == verifyJWT(cred)
         q == [r EXCEPT !.op = "like-blog", !.user = cred, !.blog = blogId,
                        !.flag = isLikedByUser]
     IN reqs' = Becomes(r,
          IF auth # NoResponse
            THEN Respond([r EXCEPT !.op = "like-blog"], auth.status, auth.body, "done")
          ELSE Goto(q, "likeInc"))
  /\ UNCHANGED <<cachedDb, connectCalls, blogs, users, notifications>>

\* Blog.findOneAndUpdate({_id}, {$inc total_likes}) and its .then: with
\* isLikedByUser the Notification is built from blog.author, which throws
\* on a null blog inside a .then that has no .catch
LikeInc(r) ==
  /\ r.pc = "likeInc"
  /\ LET b == r.blog IN
     /\ blogs' = IF Resolves(b)
                   THEN [blogs EXCEPT ![b].activity.total_likes =
                                         @ + likeIncrement(r.flag)]
                   ELSE blogs
     /\ reqs' = Becomes(r,
                  IF r.flag
                    THEN IF Resolves(b) THEN Goto(r, "likeSave")
                         ELSE Goto(r, "rejected")
                    ELSE Goto(r, "likeDelete"))
  /\ UNCHANGED <<cachedDb, connectCalls, users, notifications>>

\* whether the Notification collection has a unique index on (user, blog,
\* type): none is enforced
NotificationUnique == FALSE

\* like.save(): inserts a Notification {type: "like", user, blog}; a
\* duplicate-key rejection would find no .catch
NotificationSave(r) ==
  /\ r.pc = "likeSave"
  /\ IF NotificationUnique /\ notifications[<<r.user, r.blog>>] > 0
       THEN /\ notifications' = notifications
            /\ reqs' = Becomes(r, Goto(r, "rejected"))
       ELSE /\ notifications' = [notifications EXCEPT ![<<r.user, r.blog>>] = @ + 1]
            /\ reqs' = Becomes(r, Respond(r, 200, "likedByUser: true", "done"))
  /\ UNCHANGED <<cachedDb, connectCalls, blogs, users>>

\* Notification.findOneAndDelete({user, blog, type: "like"}): removes one
\* matching document when there is one
NotificationDelete(r) ==
  /\ r.pc = "likeDelete"
  /\ notifications' = [notifications EXCEPT ![<<r.user, r.blog>>] =
                                               IF @ > 0 THEN @ - 1 ELSE 0]
  /\ reqs' = Becomes(r, Respond(r, 200, "likedByUser: false", "done"))
  /\ UNCHANGED <<cachedDb, connectCalls, blogs, users>>

\* ------------------------------------------------- storage-call failures
\* Blog.findOneAndUpdate of /like-blog rejects (a CastError on an _id that
\* is no ObjectId, or a storage failure): its .then has no .catch
LikeIncFails(r) ==
  /\ r.pc = "likeInc"
  /\ reqs' = Becomes(r, Goto(r, "rejected"))
  /\ UNCHANGED <<cachedDb, connectCalls, blogs, users, notifications>>

\* like.save() rejects: its .then has no .catch
NotificationSaveFails(r) ==
  /\ r.pc = "likeSave"
  /\ reqs' = Becomes(r, Goto(r, "rejected"))
  /\ UNCHANGED <<cachedDb, connectCalls, blogs, users, notifications>>

\* Notification.findOneAndDelete rejects: the .catch answers 500
NotificationDeleteFails(r) ==
  /\ r.pc = "likeDelete"
  /\ reqs' = Becomes(r, Respond(r, 500, "err.message", "done"))
  /\ UNCHANGED <<cachedDb, connectCalls, blogs, users, notifications>>

\* ------------------------------------------------------- specifications
\* the connection middleware, in front of every route
Middleware(n) ==
  \/ ConnectCached(n)
  \/ ConnectCall(n)
  \/ \E r \in Requests : ConnectDone(r)

\* /create-blog without blogId, its request drawn from the given sets
CreateRoute(creds, bodies, drafts) ==
  \/ \E r \in Requests, cred \in creds, body \in bodies, draft \in drafts :
        CreateBlog(r, cred, body, draft, NoBlogId)
  \/ \E r \in Requests : BlogSave(r)
  \/ \E r \in Requests : UserUpdate(r)

\* /create-blog with a blogId, its request drawn from the given sets
UpdateRoute(creds, bodies, drafts) ==
  \/ \E r \in Requests, cred \in creds, body \in bodies, draft \in drafts,
        blogId \in BlogRefs : CreateBlog(r, cred, body, draft, blogId)
  \/ \E r \in Requests : BlogUpdate(r)

GetBlogRoute ==
  \/ \E r \in Requests, blogId \in BlogRefs, draft \in BOOLEAN, mode \in Modes :
        GetBlog(r, blogId, draft, mode)
  \/ \E r \in Requests : GetBlogFind(r)
  \/ \E r \in Requests : AuthorUpdate(r)

LikeBlogRoute ==
  \/ \E r \in Requests, cred \in Credentials, blogId \in BlogRefs,
        isLikedByUser \in BOOLEAN : LikeBlog(r, cred, blogId, isLikedByUser)
  \/ \E r \in Requests : LikeInc(r)
  \/ \E r \in Requests : NotificationSave(r)
  \/ \E r \in Requests : NotificationDelete(r)

LikeBlogFaults ==
  \/ \E r \in Requests : LikeIncFails(r)
  \/ \E r \in Requests : NotificationSaveFails(r)
  \/ \E r \in Requests : NotificationDeleteFails(r)

\* publication: every /create-blog request body, creations and updates
NextPublish ==
  \/ Middleware(MaxPublishReq)
  \/ CreateRoute(Credentials, Bodies, BOOLEAN)
  \/ UpdateRoute(Credentials, Bodies, BOOLEAN)

SpecPublish == Init /\ [][NextPublish]_vars

\* views: /get-blog against blogs that /create-blog requests of signed-in
\* users create, publish and unpublish (the update path never reads the
\* caller's identity, so one updating user stands for all)
Updater == CHOOSE u \in Users : TRUE

NextView ==
  \/ Middleware(MaxReq)
  \/ CreateRoute(Users, {FullBody}, BOOLEAN)
  \/ UpdateRoute({Updater}, {FullBody}, BOOLEAN)
  \/ GetBlogRoute

SpecView == Init /\ [][NextView]_vars

\* likes: /like-blog against blogs that complete /create-blog requests create
NextLike ==
  \/ Middleware(MaxReq)
  \/ CreateRoute(Users, {FullBody}, BOOLEAN)
  \/ LikeBlogRoute

SpecLike == Init /\ [][NextLike]_vars

\* likes, with storage calls of /like-blog that may reject
NextLikeFault ==
  \/ NextLike
  \/ LikeBlogFaults

SpecLikeFault == Init /\ [][NextLikeFault]_vars

\* ================================================================ claims
\* request r takes a step of its handler
Moves(r) == CopiesIn(r, reqs') < CopiesIn(r, reqs)

\* some request is inside the handler of route op
InFlight(op) ==
  \E r \in Requests : r.op = op /\ r.pc \notin {"done", "rejected"}

AccessDenied == Response(500, "you can not access draft blogs.")

Published(a) == {i \in DOMAIN blogs : blogs[i].author = a /\ ~blogs[i].draft}

RECURSIVE ReadsOf(_, _)
\* total_reads summed over the blogs 1..n that a owns
ReadsOf(a, n) ==
  IF n = 0 THEN 0
  ELSE ReadsOf(a, n - 1)
         + (IF blogs[n].author = a THEN blogs[n].activity.total_reads ELSE 0)

\* C1: every stored blog with draft == false has a non-empty title,
\* description, banner, content.blocks and tags, and a request that would
\* store a non-draft blog with one of them empty ends rejected with a
\* validation error
C1_PublishedComplete ==
  /\ \A i \in DOMAIN blogs :
       ~blogs[i].draft => \A f \in Fields : blogs[i].body[f] > 0
  /\ \A r \in Requests :
       (r.op = "create-blog" /\ r.user \in Users /\ ~r.draft
          /\ \E f \in Fields : r.body[f] = 0)
         => (r.pc = "done" => r.res.status = 403)

\* what C2 says of the steps of a like-blog request
C2_LikeStep ==
  \A r \in Requests :
    /\ (r.pc = "likeInc" /\ Moves(r) /\ Resolves(r.blog)) =>
         blogs'[r.blog].activity.total_likes =
           blogs[r.blog].activity.total_likes + (IF r.flag THEN 1 ELSE -1)
    /\ (r.pc = "likeSave" /\ Moves(r)) =>
         /\ r.flag
         /\ notifications'[<<r.user, r.blog>>] = notifications[<<r.user, r.blog>>] + 1
         /\ reqs' = Becomes(r, [r EXCEPT !.pc = "done", !.sent = 1,
                                  !.res = Response(200, "likedByUser: true")])
    /\ (r.pc = "likeDelete" /\ Moves(r)) =>
         /\ ~r.flag
         /\ notifications'[<<r.user, r.blog>>] = 0
         /\ reqs' = Becomes(r, [r EXCEPT !.pc = "done", !.sent = 1,
                                  !.res = Response(200, "likedByUser: false")])

\* C2: a like-blog request on an existing blog with isLikedByUser == true
\* raises total_likes by exactly 1, creates the (user, blog) ledger entry and
\* answers likedByUser: true; with false it lowers total_likes by exactly 1,
\* removes the entry and answers likedByUser: false
C2_LikeCounterFollowsLedger == [][C2_LikeStep]_vars

\* C3: there is at most one like-ledger entry per (user, blog)
C3_OneEntryPerUserBlog ==
  \A k \in Users \X BlogRefs : notifications[k] <= 1

\* C4: when N distinct users have each issued one like request with the
\* desired state true for a blog, and these are all the like requests for
\* it, then once they have completed its total_likes is N
C4_ConcurrentLikesCounted ==
  \A b \in DOMAIN blogs :
    LET likes == {r \in Requests : r.op = "like-blog" /\ r.user \in Users
                                     /\ r.blog = b}
    IN (/\ likes # {}
        /\ \A r \in likes : r.flag /\ r.pc = "done" /\ CopiesIn(r, reqs) = 1)
         => blogs[b].activity.total_likes = Cardinality(likes)

\* what C5 says of the steps of a get-blog request
C5_ViewStep ==
  \A r \in Requests :
    /\ (r.pc = "getFind" /\ Moves(r) /\ Resolves(r.blog)) =>
         /\ blogs'[r.blog].activity.total_reads =
              blogs[r.blog].activity.total_reads + (IF r.mode = "edit" THEN 0 ELSE 1)
         /\ users' = users
    /\ (r.pc = "authorUpdate" /\ Moves(r)) =>
         /\ users'[blogs[r.blog].author].total_reads =
              users[blogs[r.blog].author].total_reads
                + (IF r.mode = "edit" THEN 0 ELSE 1)
         /\ blogs' = blogs

\* what C5 says of the states with no get-blog request in flight
C5_ReadsAddUp ==
  ~InFlight("get-blog") =>
    \A a \in Users : users[a].total_reads = ReadsOf(a, Len(blogs))

\* C5: a get-blog request for an existing blog adds 1 to the blog's
\* total_reads and 1 to its author's total_reads, and adds nothing to either
\* when mode == "edit"; whenever no get-blog request is in flight every
\* author's total_reads is the sum of total_reads over that author's blogs
C5_ViewsCounted == [][C5_ViewStep]_vars /\ []C5_ReadsAddUp

\* a blog was viewed once in edit mode and once not: one read is counted,
\* on the blog and on its author
C5_Witness ==
  /\ ~InFlight("get-blog")
  /\ \E b \in DOMAIN blogs :
       /\ blogs[b].activity.total_reads = 1
       /\ users[blogs[b].author].total_reads = 1
       /\ \E r \in Requests : r.op = "get-blog" /\ r.blog = b /\ r.pc = "done"
                                /\ r.mode = "edit" /\ r.res.status = 200
       /\ \E r \in Requests : r.op = "get-blog" /\ r.blog = b /\ r.pc = "done"
                                /\ r.mode # "edit"

\* what C6 says of the steps of a get-blog request
C6_DeniedStep ==
  \A r \in Requests :
    /\ (r.pc = "getFind" /\ Moves(r) /\ Resolves(r.blog)
          /\ blogs[r.blog].draft /\ ~r.draft) =>
         /\ reqs' = Becomes(r, [r EXCEPT !.pc = "authorUpdate", !.sent = 1,
                                  !.res = AccessDenied])
         /\ r.mode # "edit" =>
              blogs'[r.blog].activity.total_reads =
                blogs[r.blog].activity.total_reads + 1
    /\ (r.res = AccessDenied /\ Moves(r)) =>
         reqs' = Becomes(r, [r EXCEPT !.pc = "done"])

\* C6: a get-blog request without the draft flag that finds a draft blog is
\* answered with the access-denied error and never with the blog, and its
\* read increment is applied all the same: total_reads is 1 higher after a
\* denied request that is not in edit mode
C6_DraftDeniedAfterCount == [][C6_DeniedStep]_vars

\* a view of a draft was denied and counted
C6_Witness ==
  \E r \in Requests :
    /\ r.op = "get-blog" /\ r.res = AccessDenied /\ r.mode # "edit"
    /\ blogs[r.blog].draft
    /\ blogs[r.blog].activity.total_reads = 1

\* C7: whenever no create-blog request is in flight, every author's
\* total_posts is the number of that author's blogs with draft == false
C7_PostCountMatches ==
  ~InFlight("create-blog") =>
    \A a \in Users : users[a].total_posts = Cardinality(Published(a))

\* C8: a create-blog request with draft == true and a non-empty title
\* succeeds whichever of description, banner, content blocks and tags are
\* empty
C8_DraftNeedsOnlyTitle ==
  \A r \in Requests :
    (r.op = "create-blog" /\ r.user \in Users /\ r.draft /\ r.body["title"] > 0)
      => r.res.status # 403

\* C9: no like-blog request ends without a response: none is abandoned by a
\* failure that escapes its handler, and a completed one was answered once
C9_LikeAlwaysAnswered ==
  \A r \in Requests :
    r.op = "like-blog" =>
      /\ r.pc # "rejected"
      /\ r.pc = "done" => r.sent = 1

\* C10: connect is invoked at most once per process
C10_ConnectAtMostOnce == connectCalls <= 1
====
